---- MODULE Spec2Model ----
(***************************************************************************)
(* A model of synthtoy: the filter tree of src/filters.rs (delay line,     *)
(* low-pass, recording tap, chain, split-join, plucked-string voice), the  *)
(* note arithmetic of src/note.rs, the MIDI decoder of src/midi.rs and the *)
(* control queue / device lock protocol of src/audio_thread.rs and         *)
(* src/main.rs.                                                            *)
(*                                                                         *)
(* Samples are f32 in the program.  Here a sample is an integer count of   *)
(* 1/SampleScale, so 1.0 is SampleScale.  A filter is a record tagged with *)
(* its kind; `process` of a filter is an operator from (filter, buffer) to *)
(* [self |-> the filter afterwards, samples |-> the buffer afterwards].    *)
(***************************************************************************)
EXTENDS Integers, Sequences, FiniteSets, TLC

VARIABLES
    \* the running program
    synth,      \* the voice inside the audio device: Synth<StringSynth, Chain<FIR, NoopFilter>>
    audio_recv, \* the queue of control events, oldest first
    pc,         \* where each thread is
    dev,        \* the audio device: who holds its lock, whether it is open
    cur,        \* audio_thread's event in hand and the frequency it asks for
    out,        \* the buffer the last callback filled
    sent,       \* every event put on the queue, in order
    handled,    \* every event audio_thread has finished with, in order
    clock,      \* the MIDI input's timestamp
    pulls,      \* callbacks finished
    \* a component on its own
    filt,       \* the filter a component specification drives
    made,       \* what that filter was made from, or was last asked
    fed,        \* samples handed to filt.process (SpecDelay: since its length was set)
    got,        \* samples filt.process handed back (SpecVoice: since the last pluck)
    disk,       \* what each Snoop::save so far did
    fault       \* "none", or "panic" once a call has panicked

progVars == <<synth, audio_recv, pc, dev, cur, out, sent, handled, clock, pulls>>

unitVars == <<filt, made, fed, got, disk, fault>>

vars == <<synth, audio_recv, pc, dev, cur, out, sent, handled, clock, pulls,
          filt, made, fed, got, disk, fault>>

----------------------------------------------------------------------------
(* Bounds of the model. *)

\* longest delay line the component specifications build
MaxLen == 3
\* longest buffer one process call of a component specification is handed
MaxBuf == 2
\* most samples a component specification feeds after a length change
MaxFed == 5
\* most children a split-join of a component specification holds
MaxChildren == 2
\* most saves a component specification asks of a recording tap
MaxSaves == 3

\* the sample values the component specifications feed: 0.0, 0.3 and -1.0
SampleVals == {0, 300, -1000}

RECURSIVE SeqsUpTo(_, _)
SeqsUpTo(S, n) ==
    IF n = 0 THEN {<<>>}
    ELSE LET shorter == SeqsUpTo(S, n - 1)
         IN  shorter \cup {Append(q, x) : q \in {r \in shorter : Len(r) = n - 1}, x \in S}

\* the buffers a caller may hand to process: 1..MaxBuf samples
Buffers == SeqsUpTo(SampleVals, MaxBuf) \ {<<>>}

Min(a, b) == IF a < b THEN a ELSE b

Abs(a) == IF a < 0 THEN -a ELSE a

\* a / b rounded to the nearest integer, halves away from zero (b > 0)
RoundDiv(a, b) ==
    IF a >= 0 THEN (2 * a + b) \div (2 * b) ELSE -((2 * (-a) + b) \div (2 * b))

----------------------------------------------------------------------------
(* Number representations.                                                 *)

\* one sample unit: the f32 value 1.0 is SampleScale
SampleScale == 1000
\* one gain unit: the f32 factor 1.0 is GainScale
GainScale == 1000
\* size of an f32 in bytes
SampleBytes == 4
\* usize::MAX, narrowed to the widest integer the model checker holds
UsizeMax == 2147483647

\* x * g for a sample x and a factor g
FMul(x, g) == RoundDiv(x * g, GainScale)

----------------------------------------------------------------------------
(* DelayLine, src/filters.rs 34-63.  pos is 0-based as in the code; the    *)
(* sequence samples is 1-based, so samples[pos] of the code is             *)
(* samples[pos + 1] here.                                                  *)

DelayLineNew(len) ==
    [kind |-> "DelayLine", samples |-> [i \in 1..len |-> 0], pos |-> 0]

\* Vec::resize(new_len, 0.): truncate, or extend with zeros
VecResize(v, new_len) ==
    [i \in 1..new_len |-> IF i <= Len(v) THEN v[i] ELSE 0]

\* Vec::resize panics ("capacity overflow") before it changes anything when
\* the new length in bytes exceeds isize::MAX
VecResizePanics(new_len) == new_len > UsizeMax \div (2 * SampleBytes)

\* `self.pos %= new_len.min(self.samples.len())` panics on a zero divisor;
\* the resize before it has already happened.
DelayLineSetLenPanics(self, new_len) ==
    \/ VecResizePanics(new_len)
    \/ Min(new_len, Len(VecResize(self.samples, new_len))) = 0

\* the delay line after set_len returned, or as the panic left it
DelayLineSetLen(self, new_len) ==
    IF VecResizePanics(new_len) THEN self
    ELSE LET resized == VecResize(self.samples, new_len)
         IN  IF Min(new_len, Len(resized)) = 0
             THEN [self EXCEPT !.samples = resized]
             ELSE [self EXCEPT !.samples = resized,
                               !.pos = self.pos % Min(new_len, Len(resized))]

\* indexing an empty buffer panics on the first sample
DelayLineProcessPanics(self, inout_samples) ==
    inout_samples # <<>> /\ Len(self.samples) = 0

\* a plausible slip: the slot is read before it is written (read-then-write)
RECURSIVE DelayLineProcessReadFirst(_, _)
DelayLineProcessReadFirst(self, inout_samples) ==
    IF inout_samples = <<>> \/ Len(self.samples) = 0
    THEN [self |-> self, samples |-> inout_samples]
    ELSE LET len  == Len(self.samples)
             s    == self.samples[self.pos + 1]
             wr   == [self.samples EXCEPT ![self.pos + 1] = Head(inout_samples)]
             nxt  == [self EXCEPT !.samples = wr, !.pos = (self.pos + 1) % len]
             rest == DelayLineProcessReadFirst(nxt, Tail(inout_samples))
         IN  [self |-> rest.self, samples |-> <<s>> \o rest.samples]

RECURSIVE DelayLineProcess(_, _)
DelayLineProcess(self, inout_samples) ==
    IF inout_samples = <<>> \/ Len(self.samples) = 0
    THEN [self |-> self, samples |-> inout_samples]
    ELSE LET len  == Len(self.samples)
             wr   == [self.samples EXCEPT ![self.pos + 1] = Head(inout_samples)]
             s    == wr[((self.pos + 1) % len) + 1]
             nxt  == [self EXCEPT !.samples = wr, !.pos = (self.pos + 1) % len]
             rest == DelayLineProcess(nxt, Tail(inout_samples))
         IN  [self |-> rest.self, samples |-> <<s>> \o rest.samples]

----------------------------------------------------------------------------
(* Every filter's process goes through Process, the dynamic dispatch of    *)
(* the Filter trait (src/filters.rs 30-32); it is defined after the kinds. *)

RECURSIVE Process(_, _)

----------------------------------------------------------------------------
(* LowPass, src/filters.rs 65-94.  gain is in 1/GainScale.                 *)

\* the ceiling `gain.min(0.499)` puts on the gain
LowPassMaxGain == 499
\* the gain Default asks for, 0.5
LowPassDefaultGain == 500

LowPassNew(gain) ==
    [kind |-> "LowPass", last |-> 0, gain |-> Min(gain, LowPassMaxGain)]

LowPassDefault == LowPassNew(LowPassDefaultGain)

\* a plausible slip: the filter remembers its output, not its input
RECURSIVE LowPassProcessFeedback(_, _)
LowPassProcessFeedback(self, samples) ==
    IF samples = <<>> THEN [self |-> self, samples |-> <<>>]
    ELSE LET s2   == Head(samples)
             s    == FMul(self.last + s2, self.gain)
             rest == LowPassProcessFeedback([self EXCEPT !.last = s], Tail(samples))
         IN  [self |-> rest.self, samples |-> <<s>> \o rest.samples]

\* a plausible slip: the sum is scaled by what the gain leaves, 1 - gain
RECURSIVE LowPassProcessComplement(_, _)
LowPassProcessComplement(self, samples) ==
    IF samples = <<>> THEN [self |-> self, samples |-> <<>>]
    ELSE LET s2   == Head(samples)
             s    == (self.last + s2) - FMul(self.last + s2, self.gain)
             rest == LowPassProcessComplement([self EXCEPT !.last = s2], Tail(samples))
         IN  [self |-> rest.self, samples |-> <<s>> \o rest.samples]

RECURSIVE LowPassProcess(_, _)
LowPassProcess(self, samples) ==
    IF samples = <<>> THEN [self |-> self, samples |-> <<>>]
    ELSE LET s2   == Head(samples)
             s    == FMul(self.last + s2, self.gain)
             rest == LowPassProcess([self EXCEPT !.last = s2], Tail(samples))
         IN  [self |-> rest.self, samples |-> <<s>> \o rest.samples]

----------------------------------------------------------------------------
(* Scale, src/filters.rs 297-305; the factor (field .0) is f0.             *)

Scale(factor) == [kind |-> "Scale", f0 |-> factor]

ScaleProcess(self, samples) ==
    [self |-> self,
     samples |-> [i \in 1..Len(samples) |-> FMul(samples[i], self.f0)]]

----------------------------------------------------------------------------
(* NoopFilter, src/filters.rs 211-215.                                     *)

NoopFilter == [kind |-> "NoopFilter"]

NoopFilterProcess(self, samples) == [self |-> self, samples |-> samples]

----------------------------------------------------------------------------
(* Snoop, src/filters.rs 178-209.                                          *)

SnoopNew(name) == [kind |-> "Snoop", name |-> name, samples |-> <<>>]

\* a plausible slip: the log is replaced by the buffer, not extended
SnoopProcessReplace(self, samples) ==
    [self |-> [self EXCEPT !.samples = samples],
     samples |-> samples]

SnoopProcess(self, samples) ==
    [self |-> [self EXCEPT !.samples = self.samples \o samples],
     samples |-> samples]

\* What a save can meet: the open fails; the write fails and wav::write
\* returns the error; everything is written; or wav::write returns Ok with
\* data still in the BufWriter, whose flush on drop then fails unreported.
SaveOutcomes == {"open_err", "write_err", "ok", "flush_lost"}

\* a plausible slip: the log is copied out, not taken
SnoopSaveCopy(self, outcome) ==
    [self   |-> self,
     ret    |-> IF outcome \in {"open_err", "write_err"} THEN "Err" ELSE "Ok",
     opened |-> outcome # "open_err",
     file   |-> IF outcome = "ok" THEN self.samples ELSE <<>>]

\* save(&self): [self |-> the tap afterwards, ret |-> "Ok" or "Err",
\*  opened |-> whether the file was created/truncated,
\*  file |-> the samples that reached the file]
SnoopSave(self, outcome) ==
    IF outcome = "open_err"
    THEN [self |-> self, ret |-> "Err", opened |-> FALSE, file |-> <<>>]
    ELSE LET taken == self.samples
             after == [self EXCEPT !.samples = <<>>]
         IN  [self   |-> after,
              ret    |-> IF outcome = "write_err" THEN "Err" ELSE "Ok",
              opened |-> TRUE,
              file   |-> IF outcome = "ok" THEN taken ELSE <<>>]

----------------------------------------------------------------------------
(* FIR, src/filters.rs 105-150.  Angles are in 1/AngleScale radians.       *)

AngleScale == 10000
\* std::f32::consts::PI in 1/AngleScale
PiScaled == 31416

\* cos of an angle in 1/AngleScale radians, in 1/AngleScale: the angle is
\* folded into [0, pi/2] and a 4-term series is summed there
CosScaled(angle) ==
    LET a0   == Abs(angle) % (2 * PiScaled)
        a1   == IF a0 > PiScaled THEN 2 * PiScaled - a0 ELSE a0
        neg  == a1 > PiScaled \div 2
        a    == IF neg THEN PiScaled - a1 ELSE a1
        a2   == (a * a) \div AngleScale
        a4   == (a2 * a2) \div AngleScale
        a6   == (a4 * a2) \div AngleScale
        c    == AngleScale - a2 \div 2 + a4 \div 24 - a6 \div 720
    IN  IF neg THEN -c ELSE c

\* the response curves handed to FIR::new: "cut1000" is the closure of
\* audio_thread (1 up to 1000 rad, else 0), "unity" is H(x) = 1
FreqRespCurve(curve, omega) ==
    IF curve = "unity" THEN AngleScale
    ELSE IF omega <= 1000 * AngleScale THEN AngleScale ELSE 0

FIRNew(taps, curve) ==
    LET m == taps * 2 + 1
    IN  [kind   |-> "FIR",
         omegas |-> [n \in 1..taps |->
                        LET omega_k == RoundDiv(n * PiScaled, m)
                        IN  <<FreqRespCurve(curve, omega_k), omega_k>>],
         freq0  |-> FreqRespCurve(curve, 0),
         m      |-> m]

RECURSIVE FIRCompSum(_, _, _)
FIRCompSum(omegas, n, sample) ==
    IF n = 0 THEN 0
    ELSE LET resp    == omegas[n][1]
             omega_k == omegas[n][2]
             angle   == RoundDiv(omega_k * sample, SampleScale)
         IN  (resp * CosScaled(angle)) \div AngleScale
             + FIRCompSum(omegas, n - 1, sample)

\* coeff * (freq0 + 2 * comp_sum), with coeff = 1 / m
FIRSample(self, sample) ==
    RoundDiv((self.freq0 + 2 * FIRCompSum(self.omegas, Len(self.omegas), sample))
                 * SampleScale,
             self.m * AngleScale)

FIRProcess(self, samples) ==
    [self |-> self,
     samples |-> [i \in 1..Len(samples) |-> FIRSample(self, samples[i])]]

----------------------------------------------------------------------------
(* Rng, src/filters.rs 276-295: xorshift32.  The u32 v is held as its two  *)
(* 16-bit halves.                                                          *)

HalfWord == 65536
\* 0xdeadbeef
SeedHi == 57005
SeedLo == 48879
\* i32::MAX / SampleScale, rounded up
I32MaxPerSample == 2147484

RECURSIVE XorBits(_, _, _)
XorBits(a, b, bits) ==
    IF bits = 0 THEN 0
    ELSE (((a % 2) + (b % 2)) % 2) + 2 * XorBits(a \div 2, b \div 2, bits - 1)

Xor32(x, y) == [hi |-> XorBits(x.hi, y.hi, 16), lo |-> XorBits(x.lo, y.lo, 16)]

\* x << n for n < 16, wrapping at 32 bits
Shl32(x, n) ==
    [hi |-> (x.hi * 2^n + x.lo \div 2^(16 - n)) % HalfWord,
     lo |-> (x.lo * 2^n) % HalfWord]

\* x >> n for n >= 16
Shr32(x, n) == [hi |-> 0, lo |-> x.hi \div 2^(n - 16)]

\* v as i32
AsI32(x) ==
    IF x.hi >= HalfWord \div 2 THEN (x.hi - HalfWord) * HalfWord + x.lo
    ELSE x.hi * HalfWord + x.lo

RngDefault == [v |-> [hi |-> SeedHi, lo |-> SeedLo]]

\* next(): [self |-> the generator afterwards, out |-> the value in samples]
RngNext(self) ==
    LET v1 == Xor32(self.v, Shl32(self.v, 13))
        v2 == Xor32(v1, Shr32(v1, 17))
        v3 == Xor32(v2, Shl32(v2, 5))
        i  == AsI32(v3)
    IN  [self |-> [v |-> v3],
         out  |-> (i \div 2 + I32MaxPerSample \div 4) \div (I32MaxPerSample \div 2)]

----------------------------------------------------------------------------
(* Frequencies.  An f32 frequency is held as [m, e]: m * 2^e, in units of  *)
(* 1/FreqScale Hz.                                                         *)

FreqScale == 10000
SAMPLING_FREQ == 44100

\* the frequency in 1/FreqScale Hz, cut off at cap (m > 0)
RECURSIVE FreqUnits(_, _, _)
FreqUnits(m, e, cap) ==
    IF e = 0 \/ m > cap THEN m
    ELSE IF e < 0 THEN FreqUnits(RoundDiv(m, 2), e + 1, cap)
    ELSE FreqUnits(2 * m, e - 1, cap)

\* `(SAMPLING_FREQ as f32 / freq).round() as usize`: the cast saturates, so
\* +inf (freq = 0) gives usize::MAX and a negative quotient gives 0
TuneLen(freq) ==
    LET num == SAMPLING_FREQ * FreqScale
        f   == FreqUnits(freq.m, freq.e, 2 * num)
    IN  IF freq.m = 0 THEN UsizeMax
        ELSE IF freq.m < 0 THEN 0
        ELSE IF f > 2 * num THEN 0
        ELSE RoundDiv(num, f)

----------------------------------------------------------------------------
(* StringSynth, src/filters.rs 307-358.                                    *)

StringSynthNew(depth) ==
    [kind          |-> "StringSynth",
     delay         |-> DelayLineNew(depth),
     lpf           |-> LowPassDefault,
     rng           |-> RngDefault,
     snoop         |-> SnoopNew("string.wav"),
     last          |-> 0,
     trigger_count |-> 0]

StringSynthTunePanics(self, freq) ==
    DelayLineSetLenPanics(self.delay, TuneLen(freq))

\* a plausible slip: the delay line is rebuilt at the new length, not resized
StringSynthTuneFresh(self, freq) ==
    [self EXCEPT !.delay = DelayLineNew(TuneLen(freq))]

StringSynthTune(self, freq) ==
    [self EXCEPT !.delay = DelayLineSetLen(self.delay, TuneLen(freq))]

StringSynthProcessPanics(self, samples) ==
    samples # <<>> /\ Len(self.delay.samples) = 0

\* a plausible slip: the countdown test is off by one (>= 0 wraps the u32 in
\* release builds; here the countdown simply stops one sample early)
StringSynthLoopInEarly(self) ==
    IF self.trigger_count > 1
    THEN LET r == RngNext(self.rng)
         IN  [self |-> [self EXCEPT !.trigger_count = self.trigger_count - 1,
                                    !.rng = r.self],
              loop_in |-> r.out + self.last]
    ELSE [self |-> self, loop_in |-> self.last]

\* a plausible slip: the decrement sits outside the test, so the countdown
\* runs on past 0
StringSynthLoopInPastZero(self) ==
    IF self.trigger_count > 0
    THEN LET r == RngNext(self.rng)
         IN  [self |-> [self EXCEPT !.trigger_count = self.trigger_count - 1,
                                    !.rng = r.self],
              loop_in |-> r.out + self.last]
    ELSE [self |-> [self EXCEPT !.trigger_count = self.trigger_count - 1],
          loop_in |-> self.last]

\* the first statement of the loop body: the loop input of one sample
StringSynthLoopIn(self) ==
    IF self.trigger_count > 0
    THEN LET r == RngNext(self.rng)
         IN  [self |-> [self EXCEPT !.trigger_count = self.trigger_count - 1,
                                    !.rng = r.self],
              loop_in |-> r.out + self.last]
    ELSE [self |-> self, loop_in |-> self.last]

RECURSIVE StringSynthProcess(_, _)
StringSynthProcess(self, samples) ==
    IF samples = <<>> \/ Len(self.delay.samples) = 0
    THEN [self |-> self, samples |-> samples]
    ELSE LET li   == StringSynthLoopIn(self)
             d    == Process(li.self.delay, <<li.loop_in>>)
             l    == Process(li.self.lpf, d.samples)
             sn   == Process(li.self.snoop, l.samples)
             nxt  == [li.self EXCEPT !.delay = d.self, !.lpf = l.self,
                                     !.snoop = sn.self, !.last = sn.samples[1]]
             rest == StringSynthProcess(nxt, Tail(samples))
         IN  [self |-> rest.self, samples |-> <<nxt.last>> \o rest.samples]

----------------------------------------------------------------------------
(* Chain, src/filters.rs 229-236; the children (fields .0 and .1) are f0   *)
(* and f1.                                                                 *)

Chain(h, t) == [kind |-> "Chain", f0 |-> h, f1 |-> t]

\* a plausible slip: the children run in field order
ChainProcessHeadFirst(self, samples) ==
    LET r0 == Process(self.f0, samples)
        r1 == Process(self.f1, r0.samples)
    IN  [self |-> [self EXCEPT !.f0 = r0.self, !.f1 = r1.self],
         samples |-> r1.samples]

ChainProcess(self, samples) ==
    LET r1 == Process(self.f1, samples)
        r0 == Process(self.f0, r1.samples)
    IN  [self |-> [self EXCEPT !.f0 = r0.self, !.f1 = r1.self],
         samples |-> r0.samples]

----------------------------------------------------------------------------
(* SplitJoin, src/filters.rs 238-255; the children (field .0) are f0.      *)

SplitJoin(children) == [kind |-> "SplitJoin", f0 |-> children]

RECURSIVE SumAt(_, _, _)
SumAt(copies, n, idx) ==
    IF n = 0 THEN 0 ELSE copies[n].samples[idx] + SumAt(copies, n - 1, idx)

\* a plausible slip: the children share one buffer, each seeing what the
\* one before it left
RECURSIVE SplitJoinRunShared(_, _, _)
SplitJoinRunShared(children, n, samples) ==
    IF n = 0 THEN <<>>
    ELSE LET before == SplitJoinRunShared(children, n - 1, samples)
             input  == IF n = 1 THEN samples ELSE before[n - 1].samples
         IN  Append(before, Process(children[n], input))

SplitJoinProcessShared(self, samples) ==
    LET copies == SplitJoinRunShared(self.f0, Len(self.f0), samples)
    IN  [self |-> [self EXCEPT !.f0 = [j \in 1..Len(self.f0) |-> copies[j].self]],
         samples |-> [idx \in 1..Len(samples) |-> SumAt(copies, Len(copies), idx)]]

SplitJoinProcess(self, samples) ==
    LET copies == [j \in 1..Len(self.f0) |-> Process(self.f0[j], samples)]
    IN  [self |-> [self EXCEPT !.f0 = [j \in 1..Len(self.f0) |-> copies[j].self]],
         samples |-> [idx \in 1..Len(samples) |-> SumAt(copies, Len(copies), idx)]]

----------------------------------------------------------------------------
(* Synth and SynthBuilder, src/filters.rs 10-26 and 217-227.  A builder    *)
(* SynthBuilder(S, T) is the pair <<S, T>>.                                *)

SynthBuilderNew(s) == <<s, NoopFilter>>

\* a plausible slip: the new filter is nested under the chain built so far
SynthBuilderChainInner(self, filter) == <<self[1], Chain(self[2], filter)>>

SynthBuilderChain(self, filter) == <<self[1], Chain(filter, self[2])>>

SynthBuilderBuild(self) == [kind |-> "Synth", synth |-> self[1], filter |-> self[2]]

SynthProcess(self, samples) ==
    LET rs == Process(self.synth, samples)
        rf == Process(self.filter, rs.samples)
    IN  [self |-> [self EXCEPT !.synth = rs.self, !.filter = rf.self],
         samples |-> rf.samples]

----------------------------------------------------------------------------
(* The dispatch of Filter::process on the kind of the filter.              *)

Process(f, samples) ==
    CASE f.kind = "DelayLine"   -> DelayLineProcess(f, samples)
      [] f.kind = "LowPass"     -> LowPassProcess(f, samples)
      [] f.kind = "Scale"       -> ScaleProcess(f, samples)
      [] f.kind = "NoopFilter"  -> NoopFilterProcess(f, samples)
      [] f.kind = "Snoop"       -> SnoopProcess(f, samples)
      [] f.kind = "FIR"         -> FIRProcess(f, samples)
      [] f.kind = "StringSynth" -> StringSynthProcess(f, samples)
      [] f.kind = "Chain"       -> ChainProcess(f, samples)
      [] f.kind = "SplitJoin"   -> SplitJoinProcess(f, samples)
      [] f.kind = "Synth"       -> SynthProcess(f, samples)

\* every recording tap in a filter tree, as the set of its [name, samples]
RECURSIVE Taps(_)
Taps(f) ==
    CASE f.kind = "Snoop"       -> {[name |-> f.name, samples |-> f.samples]}
      [] f.kind = "StringSynth" -> Taps(f.snoop)
      [] f.kind = "Chain"       -> Taps(f.f0) \cup Taps(f.f1)
      [] f.kind = "SplitJoin"   -> UNION {Taps(f.f0[j]) : j \in 1..Len(f.f0)}
      [] f.kind = "Synth"       -> Taps(f.synth) \cup Taps(f.filter)
      [] OTHER                  -> {}


----------------------------------------------------------------------------
(* Notes, src/note.rs.  A Note is its discriminant 0..11 (A = 0).          *)

\* Note::ratio: 2^(semitones/12), in 1/FreqScale
NoteRatio(note) ==
    CASE note = 0 -> 10000 [] note = 1 -> 10595 [] note = 2  -> 11225
      [] note = 3 -> 11892 [] note = 4 -> 12599 [] note = 5  -> 13348
      [] note = 6 -> 14142 [] note = 7 -> 14983 [] note = 8  -> 15874
      [] note = 9 -> 16818 [] note = 10 -> 17818 [] note = 11 -> 18877

\* Note::freq: 440 * 2^(octave - 4) * ratio
NoteFreq(note, octave) == [m |-> 440 * NoteRatio(note), e |-> octave - 4]

\* key_to_freq: <<frequency>> for a key of the table, <<>> (None) otherwise
KeyToFreq(kc) ==
    CASE kc = "Z"      -> <<NoteFreq(0, 4)>>
      [] kc = "X"      -> <<NoteFreq(2, 4)>>
      [] kc = "C"      -> <<NoteFreq(3, 4)>>
      [] kc = "V"      -> <<NoteFreq(5, 4)>>
      [] kc = "B"      -> <<NoteFreq(7, 4)>>
      [] kc = "N"      -> <<NoteFreq(8, 4)>>
      [] kc = "M"      -> <<NoteFreq(10, 4)>>
      [] kc = "Comma"  -> <<NoteFreq(0, 5)>>
      [] kc = "Period" -> <<NoteFreq(2, 5)>>
      [] kc = "Slash"  -> <<NoteFreq(3, 5)>>
      [] OTHER         -> <<>>

\* the lowest MIDI note with a pitch of its own: A0
MidiA0 == 21

\* a plausible slip: no arm for the low notes, so n - 21 wraps in u8
MidiNoteToFreqWrapping(note) ==
    LET relative_to_a0 == (note + 256 - MidiA0) % 256
    IN  NoteFreq(relative_to_a0 % 12, relative_to_a0 \div 12)

MidiNoteToFreq(note) ==
    IF note <= MidiA0 THEN NoteFreq(0, 0)
    ELSE LET relative_to_a0 == note - MidiA0
         IN  NoteFreq(relative_to_a0 % 12, relative_to_a0 \div 12)

----------------------------------------------------------------------------
(* MIDI decoding, src/midi.rs 38-65 (and its copy src/main.rs 83-110).  A  *)
(* raw message is a sequence of bytes; the result is <<event>> or <<>>.     *)

\* a plausible slip: note and velocity are read from each other's byte
ParseMidiSwapped(timestamp, midi) ==
    LET byte0   == midi[1]
        cmd     == byte0 \div 16
        channel == byte0 % 16
    IN  CASE cmd = 8  -> <<[timestamp |-> timestamp, channel |-> channel,
                            inner |-> [tag |-> "Up", velocity |-> midi[2], note |-> midi[3]]]>>
          [] cmd = 9  -> <<[timestamp |-> timestamp, channel |-> channel,
                            inner |-> [tag |-> "Down", velocity |-> midi[2], note |-> midi[3]]]>>
          [] cmd = 10 -> <<[timestamp |-> timestamp, channel |-> channel,
                            inner |-> [tag |-> "KeyPressure", key |-> midi[2], pressure |-> midi[3]]]>>
          [] OTHER    -> <<>>

ParseMidi(timestamp, midi) ==
    LET byte0   == midi[1]
        cmd     == byte0 \div 16
        channel == byte0 % 16
    IN  CASE cmd = 8  -> <<[timestamp |-> timestamp, channel |-> channel,
                            inner |-> [tag |-> "Up", velocity |-> midi[3], note |-> midi[2]]]>>
          [] cmd = 9  -> <<[timestamp |-> timestamp, channel |-> channel,
                            inner |-> [tag |-> "Down", velocity |-> midi[3], note |-> midi[2]]]>>
          [] cmd = 10 -> <<[timestamp |-> timestamp, channel |-> channel,
                            inner |-> [tag |-> "KeyPressure", key |-> midi[2], pressure |-> midi[3]]]>>
          [] OTHER    -> <<>>

\* AudioEvent, src/audio_thread.rs 9-15
EvMidi(ev)       == [tag |-> "Midi", ev |-> ev]
EvPlayNote(freq) == [tag |-> "PlayNote", freq |-> freq]
EvTerminate      == [tag |-> "Terminate"]

\* an event that retunes and plucks the voice
IsNoteEvent(e) ==
    \/ e.tag = "PlayNote"
    \/ e.tag = "Midi" /\ e.ev.inner.tag = "Down"

\* the frequency a note event asks for
EventFreq(e) ==
    IF e.tag = "PlayNote" THEN e.freq ELSE MidiNoteToFreq(e.ev.inner.note)

----------------------------------------------------------------------------
(* The running program, src/audio_thread.rs and src/main.rs 219-278.       *)
(*                                                                         *)
(* Four threads: "main" runs the event loop of run; "audio" runs           *)
(* audio_thread, which owns the receiving end of the queue and the audio   *)
(* device; "sdl" is the device's own thread, which calls                   *)
(* SDLShim::callback with the device lock held; "midi" is the MIDI input   *)
(* connection's thread, which calls the closure of initialize_midi.        *)
(* Init is the state once the window is shown, the audio thread has opened *)
(* and resumed the device and the MIDI input is connected.  When main      *)
(* returns, the process exits and every thread stops where it is.          *)

\* StringSynth::new(500)
StringDepth == 500
\* FIR::new(25, freq_curve)
FirTaps == 25
\* synth.trigger_count = 50
TriggerLen == 50

\* most events the producers put on the queue
MaxSent == 2
\* most raw MIDI messages the input delivers
MaxMidi == 1
\* most buffers the device pulls
MaxPulls == 1
\* samples in one buffer of the device
BufLen == 2

\* the keys pressed, among those of key_to_freq
PressedKeys == {"Z", "Slash"}

\* the raw messages delivered: note-on 69, note-on 161, note-on 12 on
\* channel 1, note-off, key pressure, a control change, a program change
MidiMsgs ==
    {<<144, 69, 100>>, <<144, 161, 100>>, <<145, 12, 1>>, <<128, 69, 0>>,
     <<160, 69, 30>>, <<176, 7, 127>>, <<192, 5>>}

InitProg ==
    /\ synth = SynthBuilderBuild(
                   SynthBuilderChain(SynthBuilderNew(StringSynthNew(StringDepth)),
                                     FIRNew(FirTaps, "cut1000")))
    /\ audio_recv = <<>>
    /\ pc = [main |-> "loop", audio |-> "recv", sdl |-> "idle", midi |-> "on"]
    /\ dev = [lock |-> "free", open |-> TRUE]
    /\ cur = <<>>
    /\ out = <<>>
    /\ sent = <<>>
    /\ handled = <<>>
    /\ clock = 0
    /\ pulls = 0

\* the program's variables while a component specification runs
ProgIdle ==
    /\ synth = NoopFilter
    /\ audio_recv = <<>>
    /\ pc = [main |-> "done", audio |-> "exited", sdl |-> "idle", midi |-> "off"]
    /\ dev = [lock |-> "free", open |-> FALSE]
    /\ cur = <<>>
    /\ out = <<>>
    /\ sent = <<>>
    /\ handled = <<>>
    /\ clock = 0
    /\ pulls = 0

\* the component variables while the program runs
UnitIdle ==
    /\ filt = NoopFilter
    /\ made = <<>>
    /\ fed = <<>>
    /\ got = <<>>
    /\ disk = <<>>
    /\ fault = "none"

\* the process has neither exited nor aborted
Alive == pc.main = "loop" /\ pc.sdl # "aborted"

\* the Receiver lives until audio_thread returns or has unwound
ReceiverAlive == pc.audio \notin {"exited", "panicked"}

\* Sender::send on a live channel: never blocks, appends in order
Send(e) ==
    /\ audio_recv' = Append(audio_recv, e)
    /\ sent' = Append(sent, e)

\* run, Event::KeyDown of a key of the table: send PlayNote; a send on a
\* closed channel makes run return the error
MainKey ==
    /\ Alive
    /\ Len(sent) < MaxSent
    /\ \E kc \in PressedKeys :
        /\ KeyToFreq(kc) # <<>>
        /\ IF ReceiverAlive
           THEN Send(EvPlayNote(KeyToFreq(kc)[1])) /\ UNCHANGED pc
           ELSE pc' = [pc EXCEPT !.main = "done"] /\ UNCHANGED <<audio_recv, sent>>
    /\ UNCHANGED <<synth, dev, cur, out, handled, clock, pulls, unitVars>>

\* run, Keycode::Q: send Terminate, ignoring the result, and leave the loop
MainKeyQ ==
    /\ Alive
    /\ IF ReceiverAlive THEN Send(EvTerminate) ELSE UNCHANGED <<audio_recv, sent>>
    /\ pc' = [pc EXCEPT !.main = "done"]
    /\ UNCHANGED <<synth, dev, cur, out, handled, clock, pulls, unitVars>>

\* run, Event::Quit: leave the loop
MainQuit ==
    /\ Alive
    /\ pc' = [pc EXCEPT !.main = "done"]
    /\ UNCHANGED <<synth, audio_recv, dev, cur, out, sent, handled, clock, pulls, unitVars>>

\* the closure of initialize_midi: decode, and send what decodes; the
\* unwrap panics on a closed channel
MidiIn ==
    /\ Alive
    /\ pc.midi = "on"
    /\ clock < MaxMidi
    /\ Len(sent) < MaxSent
    /\ clock' = clock + 1
    /\ \E data \in MidiMsgs :
        LET parsed == ParseMidi(clock, data)
        IN  IF parsed = <<>> THEN UNCHANGED <<audio_recv, sent, pc>>
            ELSE IF ReceiverAlive
                 THEN Send(EvMidi(parsed[1])) /\ UNCHANGED pc
                 ELSE pc' = [pc EXCEPT !.midi = "panicked"] /\ UNCHANGED <<audio_recv, sent>>
    /\ UNCHANGED <<synth, dev, cur, out, handled, pulls, unitVars>>

\* audio_thread, `audio_recv.recv().unwrap()` and the match on the event
AudioRecv ==
    /\ Alive
    /\ pc.audio = "recv"
    /\ audio_recv # <<>>
    /\ LET e == Head(audio_recv)
       IN  /\ audio_recv' = Tail(audio_recv)
           /\ IF IsNoteEvent(e)
              THEN /\ cur' = <<e, EventFreq(e)>>
                   /\ pc' = [pc EXCEPT !.audio = "lock"]
                   /\ UNCHANGED handled
              ELSE /\ handled' = Append(handled, e)
                   /\ pc' = [pc EXCEPT !.audio =
                                IF e.tag = "Terminate" THEN "close" ELSE "recv"]
                   /\ UNCHANGED cur
    /\ UNCHANGED <<synth, dev, out, sent, clock, pulls, unitVars>>

\* `dev.lock()`: waits until the device's thread is outside the callback
AudioLock ==
    /\ Alive
    /\ pc.audio = "lock"
    /\ dev.lock = "free"
    /\ dev' = [dev EXCEPT !.lock = "audio"]
    /\ pc' = [pc EXCEPT !.audio = "tune"]
    /\ UNCHANGED <<synth, audio_recv, cur, out, sent, handled, clock, pulls, unitVars>>

\* `synth.tune(freq)` on lock.0.synth; a panic starts unwinding
AudioTune ==
    /\ Alive
    /\ pc.audio = "tune"
    /\ synth' = [synth EXCEPT !.synth = StringSynthTune(synth.synth, cur[2])]
    /\ pc' = [pc EXCEPT !.audio =
                 IF StringSynthTunePanics(synth.synth, cur[2]) THEN "unwind" ELSE "trigger"]
    /\ UNCHANGED <<audio_recv, dev, cur, out, sent, handled, clock, pulls, unitVars>>

\* `synth.trigger_count = 50`
AudioTrigger ==
    /\ Alive
    /\ pc.audio = "trigger"
    /\ synth' = [synth EXCEPT !.synth.trigger_count = TriggerLen]
    /\ pc' = [pc EXCEPT !.audio = "unlock"]
    /\ UNCHANGED <<audio_recv, dev, cur, out, sent, handled, clock, pulls, unitVars>>

\* the lock guard goes out of scope at the end of the match arm
AudioUnlock ==
    /\ Alive
    /\ pc.audio = "unlock"
    /\ dev' = [dev EXCEPT !.lock = "free"]
    /\ pc' = [pc EXCEPT !.audio = "recv"]
    /\ handled' = Append(handled, cur[1])
    /\ UNCHANGED <<synth, audio_recv, cur, out, sent, clock, pulls, unitVars>>

\* unwinding drops the lock guard first
AudioUnwind ==
    /\ Alive
    /\ pc.audio = "unwind"
    /\ dev' = [dev EXCEPT !.lock = "free"]
    /\ pc' = [pc EXCEPT !.audio = "unwind_close"]
    /\ UNCHANGED <<synth, audio_recv, cur, out, sent, handled, clock, pulls, unitVars>>

\* audio_thread returns or unwinds: dev is dropped, which closes the device
\* once its thread is outside the callback, and then the Receiver is
AudioClose ==
    /\ Alive
    /\ pc.audio \in {"close", "unwind_close"}
    /\ dev.lock = "free"
    /\ dev' = [dev EXCEPT !.open = FALSE]
    /\ pc' = [pc EXCEPT !.audio = IF pc.audio = "close" THEN "exited" ELSE "panicked"]
    /\ UNCHANGED <<synth, audio_recv, cur, out, sent, handled, clock, pulls, unitVars>>

\* the device's thread takes the device lock to call the callback
SdlEnter ==
    /\ Alive
    /\ dev.open
    /\ pc.sdl = "idle"
    /\ dev.lock = "free"
    /\ pulls < MaxPulls
    /\ dev' = [dev EXCEPT !.lock = "sdl"]
    /\ pc' = [pc EXCEPT !.sdl = "callback"]
    /\ UNCHANGED <<synth, audio_recv, cur, out, sent, handled, clock, pulls, unitVars>>

\* SDLShim::callback: self.0.process(samples) on a buffer of silence; a
\* panic inside the callback cannot unwind into the device's thread and
\* aborts the process
SdlCallback ==
    /\ Alive
    /\ pc.sdl = "callback"
    /\ LET samples == [i \in 1..BufLen |-> 0]
       IN  IF StringSynthProcessPanics(synth.synth, samples)
           THEN /\ pc' = [pc EXCEPT !.sdl = "aborted"]
                /\ UNCHANGED <<synth, out>>
           ELSE LET r == Process(synth, samples)
                IN  /\ synth' = r.self
                    /\ out' = r.samples
                    /\ pc' = [pc EXCEPT !.sdl = "return"]
    /\ UNCHANGED <<audio_recv, dev, cur, sent, handled, clock, pulls, unitVars>>

\* the callback has returned: the device's thread releases the lock
SdlLeave ==
    /\ Alive
    /\ pc.sdl = "return"
    /\ dev' = [dev EXCEPT !.lock = "free"]
    /\ pc' = [pc EXCEPT !.sdl = "idle"]
    /\ pulls' = pulls + 1
    /\ UNCHANGED <<synth, audio_recv, cur, out, sent, handled, clock, unitVars>>

Next ==
    \/ MainKey \/ MainKeyQ \/ MainQuit
    \/ MidiIn
    \/ AudioRecv \/ AudioLock \/ AudioTune \/ AudioTrigger \/ AudioUnlock
    \/ AudioUnwind \/ AudioClose
    \/ SdlEnter \/ SdlCallback \/ SdlLeave

Init == InitProg /\ UnitIdle

Spec == Init /\ [][Next]_vars
----------------------------------------------------------------------------
(* SpecDelay: a DelayLine driven through its public interface.             *)

InitDelay ==
    /\ ProgIdle
    /\ \E len \in 0..MaxLen : filt = DelayLineNew(len)
    /\ made = <<>>
    /\ fed = <<>>
    /\ got = <<>>
    /\ disk = <<>>
    /\ fault = "none"

DelayProcess ==
    /\ fault = "none"
    /\ \E buf \in Buffers :
        /\ Len(fed) + Len(buf) <= MaxFed
        /\ IF DelayLineProcessPanics(filt, buf)
           THEN /\ fault' = "panic"
                /\ UNCHANGED <<filt, made, fed, got, disk, progVars>>
           ELSE LET r == DelayLineProcess(filt, buf)
                IN  /\ filt' = r.self
                    /\ fed' = fed \o buf
                    /\ got' = got \o r.samples
                    /\ UNCHANGED <<made, disk, fault, progVars>>

DelaySetLen ==
    /\ fault = "none"
    /\ \E new_len \in 0..MaxLen :
        /\ filt' = DelayLineSetLen(filt, new_len)
        /\ fault' = IF DelayLineSetLenPanics(filt, new_len) THEN "panic" ELSE "none"
        /\ fed' = <<>>
        /\ got' = <<>>
        /\ UNCHANGED <<made, disk, progVars>>

NextDelay == DelayProcess \/ DelaySetLen

SpecDelay == InitDelay /\ [][NextDelay]_vars

----------------------------------------------------------------------------
(* C1 *)

\* C1 as stated: a delay line of length n >= 1 hands back, as its k-th
\* output, the (k-n)-th input, for every k >= n.
C1_DelayedByLen ==
    LET n == Len(filt.samples)
    IN  (fault = "none" /\ n >= 1) =>
            \A k \in 1..Len(got) : k > n => got[k] = fed[k - n]

\* C1 amended: a delay line of length n >= 1 delays the stream by n - 1
\* samples: the k-th output is the (k-(n-1))-th input for every k >= n - 1,
\* whatever the split of the stream into process calls.
C1_DelayedByLenMinusOne ==
    LET n == Len(filt.samples)
    IN  (fault = "none" /\ n >= 1) =>
            /\ Len(got) = Len(fed)
            /\ \A k \in 1..Len(got) : k >= n => got[k] = fed[k - (n - 1)]

C1_Witness ==
    /\ fault = "none"
    /\ Len(filt.samples) = 3
    /\ Len(fed) = 5
    /\ fed[1] # fed[2] /\ fed[2] # fed[3]
    /\ got[3] = fed[1] /\ got[5] = fed[3]


----------------------------------------------------------------------------
(* SpecChain: a voice assembled with SynthBuilder, as audio_thread does    *)
(* (src/audio_thread.rs 49-52), from a source and two filters A and B:     *)
(* SynthBuilder::new(synth).chain(A).chain(B).build().                     *)

\* a voice already plucked, so that it has something to say
PluckedString == [StringSynthNew(2) EXCEPT !.trigger_count = 3]

ChainSources == {NoopFilter, PluckedString}

ChainParts ==
    {Scale(2000), SnoopNew("tap.wav"), LowPassDefault, DelayLineNew(2),
     FIRNew(2, "unity")}

InitChain ==
    /\ ProgIdle
    /\ \E s \in ChainSources, a \in ChainParts, b \in ChainParts :
        /\ made = [synth |-> s, a |-> a, b |-> b]
        /\ filt = SynthBuilderBuild(
                     SynthBuilderChain(SynthBuilderChain(SynthBuilderNew(s), a), b))
    /\ fed = <<>>
    /\ got = <<>>
    /\ disk = <<>>
    /\ fault = "none"

VoiceProcess ==
    \E buf \in Buffers :
        /\ Len(fed) + Len(buf) <= MaxFed
        /\ LET r == Process(filt, buf)
           IN  /\ filt' = r.self
               /\ fed' = fed \o buf
               /\ got' = got \o r.samples
        /\ UNCHANGED <<made, disk, fault, progVars>>

NextChain == VoiceProcess

SpecChain == InitChain /\ [][NextChain]_vars

\* the stream fed so far put through the source, then `first`, then
\* `second`, each on its own: the samples that come out and what every tap
\* recorded
InOrder(source, first, second) ==
    LET rs == Process(source, fed)
        r1 == Process(first, rs.samples)
        r2 == Process(second, r1.samples)
    IN  [samples |-> r2.samples,
         taps    |-> Taps(rs.self) \cup Taps(r1.self) \cup Taps(r2.self)]

\* C2 as stated: the voice new(synth).chain(A).chain(B).build() runs the
\* synth, then B, then A: its output is A(B(x)) and every tap saw the
\* stream at that place.
C2_SynthThenBThenA ==
    LET claimed == InOrder(made.synth, made.b, made.a)
    IN  got = claimed.samples /\ Taps(filt) = claimed.taps

\* C2 amended: the voice runs the synth, then A, then B: its output is
\* B(A(x)); the filter chained first runs closest to the synth's raw output.
C2_SynthThenAThenB ==
    LET claimed == InOrder(made.synth, made.a, made.b)
    IN  got = claimed.samples /\ Taps(filt) = claimed.taps

\* A is a tap and B doubles: the tap recorded the raw stream, not the doubled
C2_Witness ==
    /\ made.synth = NoopFilter
    /\ made.a.kind = "Snoop" /\ made.b = Scale(2000)
    /\ Len(fed) = 3 /\ fed[1] = 300
    /\ got[1] = 600
    /\ Taps(filt) = {[name |-> "tap.wav", samples |-> fed]}

----------------------------------------------------------------------------
(* SpecSnoop: a recording tap fed numbered samples and saved.  Each save   *)
(* is logged in disk as [at |-> how many samples had been fed, ret |-> its *)
(* result, opened |-> whether it opened (and truncated) the file, file |-> *)
(* the samples that reached the file].                                     *)

InitSnoop ==
    /\ ProgIdle
    /\ filt = SnoopNew("string.wav")
    /\ made = <<>>
    /\ fed = <<>>
    /\ got = <<>>
    /\ disk = <<>>
    /\ fault = "none"

TapProcess ==
    \E n \in 1..MaxBuf :
        /\ Len(fed) + n <= MaxFed
        /\ LET buf == [i \in 1..n |-> Len(fed) + i]
               r   == Process(filt, buf)
           IN  /\ filt' = r.self
               /\ fed' = fed \o buf
               /\ got' = got \o r.samples
        /\ UNCHANGED <<made, disk, fault, progVars>>

TapSave ==
    /\ Len(disk) < MaxSaves
    /\ \E outcome \in SaveOutcomes :
        LET r == SnoopSave(filt, outcome)
        IN  /\ filt' = r.self
            /\ disk' = Append(disk, [at |-> Len(fed), ret |-> r.ret,
                                     opened |-> r.opened, file |-> r.file])
    /\ UNCHANGED <<made, fed, got, fault, progVars>>

NextSnoop == TapProcess \/ TapSave

SpecSnoop == InitSnoop /\ [][NextSnoop]_vars

Range(q) == {q[i] : i \in 1..Len(q)}

\* no sample is in the files of two saves
WrittenAtMostOnce ==
    \A i \in 1..Len(disk) : \A j \in 1..Len(disk) :
        i < j => Range(disk[i].file) \cap Range(disk[j].file) = {}

\* C9 as stated: after a save that returns the log is empty; a second save
\* with no process call in between writes an empty sample set; every
\* recorded sample is written by at most one save.
C9_SaveDrains ==
    /\ (disk # <<>> /\ disk[Len(disk)].at = Len(fed)) => filt.samples = <<>>
    /\ \A i \in 1..(Len(disk) - 1) :
          disk[i].at = disk[i + 1].at => disk[i + 1].file = <<>>
    /\ WrittenAtMostOnce

\* how many samples had been fed at the last save that opened its file
RECURSIVE LastOpenedAt(_)
LastOpenedAt(n) ==
    IF n = 0 THEN 0 ELSE IF disk[n].opened THEN disk[n].at ELSE LastOpenedAt(n - 1)

\* C9 amended: the same of a save that got as far as opening its
\* destination, whether or not the write then succeeded; a save whose open
\* fails returns the error and leaves the log as it was, so the log always
\* holds exactly the samples recorded since the last save that opened.
C9_SaveDrainsOnceOpened ==
    /\ (disk # <<>> /\ disk[Len(disk)].at = Len(fed) /\ disk[Len(disk)].opened) =>
          filt.samples = <<>>
    /\ \A i \in 1..(Len(disk) - 1) :
          (disk[i].opened /\ disk[i].at = disk[i + 1].at) => disk[i + 1].file = <<>>
    /\ \A i \in 1..Len(disk) : ~disk[i].opened => disk[i].ret = "Err"
    /\ filt.samples = SubSeq(fed, LastOpenedAt(Len(disk)) + 1, Len(fed))
    /\ WrittenAtMostOnce

C9_Witness ==
    /\ Len(disk) >= 2
    /\ disk[1].ret = "Ok" /\ disk[1].file = <<1, 2, 3>>
    /\ disk[2].at = disk[1].at
    /\ disk[2].ret = "Ok" /\ disk[2].file = <<>>
    /\ filt.samples = <<>>

----------------------------------------------------------------------------
(* SpecSplit: a SplitJoin over up to MaxChildren children.                 *)

SplitParts ==
    {NoopFilter, Scale(2000), SnoopNew("tap.wav"), DelayLineNew(2), LowPassDefault}

InitSplit ==
    /\ ProgIdle
    /\ \E children \in SeqsUpTo(SplitParts, MaxChildren) :
        /\ made = children
        /\ filt = SplitJoin(children)
    /\ fed = <<>>
    /\ got = <<>>
    /\ disk = <<>>
    /\ fault = "none"

SplitProcess ==
    \E buf \in Buffers :
        /\ Len(fed) + Len(buf) <= MaxFed
        /\ LET r == Process(filt, buf)
           IN  /\ filt' = r.self
               /\ fed' = fed \o buf
               /\ got' = got \o r.samples
        /\ UNCHANGED <<made, disk, fault, progVars>>

NextSplit == SplitProcess

SpecSplit == InitSplit /\ [][NextSplit]_vars

\* C10: every child of a SplitJoin works on its own copy of the input: each
\* child is left as if it alone had processed the stream, the output is
\* the sum over the children of what each made of the stream, and N no-op
\* children give N times the input.
C10_SplitJoinSums ==
    LET n     == Len(made)
        alone == [j \in 1..n |-> Process(made[j], fed)]
    IN  /\ Len(got) = Len(fed)
        /\ \A j \in 1..n : filt.f0[j] = alone[j].self
        /\ \A i \in 1..Len(fed) : got[i] = SumAt(alone, n, i)
        /\ (\A j \in 1..n : made[j] = NoopFilter) =>
              \A i \in 1..Len(fed) : got[i] = n * fed[i]

\* a doubling child beside a tap: 3x comes out and the tap recorded x
C10_Witness ==
    /\ made = <<Scale(2000), SnoopNew("tap.wav")>>
    /\ Len(fed) = 2 /\ fed[1] = 300 /\ fed[2] = -1000
    /\ got = <<900, -3000>>
    /\ filt.f0[2].samples = fed

\* two no-op children double the input
C10_WitnessNoop ==
    /\ made = <<NoopFilter, NoopFilter>>
    /\ Len(fed) = 2 /\ fed[1] = 300
    /\ got[1] = 600

----------------------------------------------------------------------------
(* SpecVoice: a StringSynth driven the way the locked sections of          *)
(* audio_thread drive it (tune, then trigger_count = 50), and pulled one   *)
(* sample or BigPull samples at a time.  got holds the samples produced    *)
(* since the last pluck; made holds the frequency last asked for, the      *)
(* generator as it was at the last pluck, and the counts of plucks and of  *)
(* one-sample pulls.                                                       *)

\* most plucks
MaxPlucks == 2
\* most one-sample pulls
MaxSingles == 2
\* samples in a long pull
BigPull == 25
\* most samples pulled in all
MaxPulled == 52

\* 440 Hz, MIDI note 127, 0 Hz, -440 Hz, MIDI note 161
VoiceFreqs ==
    {NoteFreq(0, 4), MidiNoteToFreq(127), [m |-> 0, e |-> 0],
     [m |-> -4400000, e |-> 0], MidiNoteToFreq(161)}

InitVoice ==
    /\ ProgIdle
    /\ \E depth \in {1, MaxLen} : filt = StringSynthNew(depth)
    /\ made = [freq |-> <<>>, rng |-> RngDefault, plucks |-> 0, singles |-> 0]
    /\ fed = <<>>
    /\ got = <<>>
    /\ disk = <<>>
    /\ fault = "none"

VoicePluck ==
    /\ fault = "none"
    /\ made.plucks < MaxPlucks
    /\ \E f \in VoiceFreqs :
        IF StringSynthTunePanics(filt, f)
        THEN /\ filt' = StringSynthTune(filt, f)
             /\ fault' = "panic"
             /\ made' = [made EXCEPT !.freq = <<f>>, !.plucks = made.plucks + 1]
             /\ UNCHANGED got
        ELSE /\ filt' = [StringSynthTune(filt, f) EXCEPT !.trigger_count = TriggerLen]
             /\ made' = [made EXCEPT !.freq = <<f>>, !.rng = filt.rng,
                                     !.plucks = made.plucks + 1]
             /\ got' = <<>>
             /\ UNCHANGED fault
    /\ UNCHANGED <<fed, disk, progVars>>

VoicePull ==
    /\ fault = "none"
    /\ \E n \in {1, BigPull} :
        /\ n = 1 => made.singles < MaxSingles
        /\ Len(filt.snoop.samples) + n <= MaxPulled
        /\ LET r == Process(filt, [i \in 1..n |-> 0])
           IN  /\ filt' = r.self
               /\ got' = got \o r.samples
        /\ made' = [made EXCEPT !.singles = IF n = 1 THEN made.singles + 1 ELSE made.singles]
    /\ UNCHANGED <<fed, disk, fault, progVars>>

NextVoice == VoicePluck \/ VoicePull

SpecVoice == InitVoice /\ [][NextVoice]_vars

\* C4 as stated: tune with a zero or negative frequency does not panic; it
\* clamps, leaving the delay line with length >= 1 and the cursor inside it.
C4_TuneClamps ==
    (made.freq # <<>> /\ made.freq[1].m <= 0) =>
        /\ fault = "none"
        /\ Len(filt.delay.samples) >= 1
        /\ filt.delay.pos < Len(filt.delay.samples)

RECURSIVE RngIter(_, _)
RngIter(r, k) ==
    IF k = 0 THEN r
    ELSE IF k = 1 THEN RngNext(r).self
    ELSE LET h == RngIter(r, k \div 2)
         IN  IF h.v.hi >= 0 THEN RngIter(h, k - k \div 2) ELSE h

\* after a pluck the countdown and the generator have moved once per sample
\* for the first 50 samples and not since
C5_Countdown ==
    (fault = "none") =>
        IF made.plucks = 0
        THEN filt.trigger_count = 0 /\ filt.rng = RngDefault
        ELSE LET k == Min(Len(got), TriggerLen)
             IN  /\ filt.trigger_count = TriggerLen - k
                 /\ filt.rng = RngIter(made.rng, k)

\* a pull of one sample: with trigger_count > 0 the countdown drops by one
\* and one noise value, added to last, is the loop input (the sample the
\* delay line stores); with trigger_count = 0 nothing moves and the loop
\* input is last
C5_Sample ==
    Len(filt'.snoop.samples) = Len(filt.snoop.samples) + 1 =>
        LET r       == RngNext(filt.rng)
            loop_in == filt'.delay.samples[filt.delay.pos + 1]
        IN  IF filt.trigger_count > 0
            THEN /\ filt'.trigger_count = filt.trigger_count - 1
                 /\ filt'.rng = r.self
                 /\ loop_in = r.out + filt.last
            ELSE /\ filt'.trigger_count = 0
                 /\ filt'.rng = filt.rng
                 /\ loop_in = filt.last

\* C5: per sample, StringSynth::process draws exactly one noise value and
\* counts down by exactly one while trigger_count > 0, and neither draws nor
\* counts once it is 0; so after a pluck exactly 50 samples receive noise.
C5_NoiseWhileCountingDown == [](C5_Countdown) /\ [][C5_Sample]_vars

\* 51 samples after a pluck: the countdown is over, 50 values were drawn
C5_Witness ==
    /\ fault = "none"
    /\ made.plucks = 1
    /\ Len(got) = TriggerLen + 1
    /\ filt.trigger_count = 0
    /\ filt.rng = RngIter(made.rng, TriggerLen)
    /\ filt.rng # RngIter(made.rng, TriggerLen - 1)

----------------------------------------------------------------------------
(* The running program: what the control path has applied.                 *)

\* the note events of a sequence of events, in order
NoteEvents(events) == SelectSeq(events, IsNoteEvent)

\* the events of a sequence that come before its first Terminate
RECURSIVE BeforeTerminate(_)
BeforeTerminate(events) ==
    IF events = <<>> \/ Head(events).tag = "Terminate" THEN <<>>
    ELSE <<Head(events)>> \o BeforeTerminate(Tail(events))

TerminateSent == \E i \in 1..Len(sent) : sent[i].tag = "Terminate"

IsPrefix(s, t) == Len(s) <= Len(t) /\ s = SubSeq(t, 1, Len(s))

\* round(44100 / f) clamped to >= 1
ClampedLen(f) == IF TuneLen(f) < 1 THEN 1 ELSE TuneLen(f)

\* the frequency of the note event whose tune was run last, if any: the one
\* in hand once AudioTune has run, else that of the last one finished with
LastTuned ==
    IF pc.audio \in {"trigger", "unlock", "unwind", "unwind_close", "panicked"}
    THEN <<cur[2]>>
    ELSE IF NoteEvents(handled) = <<>> THEN <<>>
    ELSE <<EventFreq(NoteEvents(handled)[Len(NoteEvents(handled))])>>

\* audio_thread has retuned the delay line for the event in hand and has not
\* (or not yet) set trigger_count for it
HalfApplied == pc.audio \in {"trigger", "unwind", "unwind_close", "panicked"}

C6_MutationUnderLock ==
    /\ pc.audio \in {"tune", "trigger", "unlock"} => dev.lock = "audio"
    /\ pc.sdl \in {"callback", "return"} => dev.lock = "sdl"
    /\ pc.sdl \in {"callback", "return", "aborted"} =>
           /\ ~HalfApplied
           /\ pc.audio \notin {"tune", "trigger"}

\* C7 as stated: events are applied in the order sent, each once; when the
\* program has finished after a Terminate, every note event sent before the
\* Terminate has been applied; and with the queue drained the delay length
\* is the one of the last note event sent.
C7_SentEventsApplied ==
    /\ IsPrefix(handled, sent)
    /\ (pc.main = "done" /\ TerminateSent) =>
           IsPrefix(BeforeTerminate(sent), handled)
    /\ (audio_recv = <<>> /\ pc.audio = "recv" /\ NoteEvents(sent) # <<>>) =>
           Len(synth.synth.delay.samples) =
               TuneLen(EventFreq(NoteEvents(sent)[Len(NoteEvents(sent))]))

\* C8 as stated: audio_thread applies no event queued after a Terminate, and
\* once a Terminate has been sent the thread has exited its loop and
\* returned (so that a join of it has returned) by the time the program
\* finishes.
C8_TerminateThenJoined ==
    /\ \A i \in 1..Len(handled) :
           handled[i].tag = "Terminate" => i = Len(handled)
    /\ (pc.main = "done" /\ TerminateSent) => pc.audio = "exited"

----------------------------------------------------------------------------
(* SpecMidi: parse_midi applied to raw 3-byte messages.  made is the call  *)
(* (timestamp and message), got is what it returned.                       *)

\* largest timestamp tried
MaxStamp == 2

\* the data bytes tried
DataBytes == {0, 69, 127, 255}

InitMidi ==
    /\ ProgIdle
    /\ filt = NoopFilter
    /\ made = <<>>
    /\ fed = <<>>
    /\ got = <<>>
    /\ disk = <<>>
    /\ fault = "none"

\* one call of parse_midi
MidiParse ==
    /\ made = <<>>
    /\ \E ts \in 0..MaxStamp, byte0 \in 0..255, byte1 \in DataBytes, byte2 \in DataBytes :
        /\ made' = [timestamp |-> ts, midi |-> <<byte0, byte1, byte2>>]
        /\ got' = ParseMidi(ts, <<byte0, byte1, byte2>>)
    /\ UNCHANGED <<filt, fed, disk, fault, progVars>>

NextMidi == MidiParse

SpecMidi == InitMidi /\ [][NextMidi]_vars

\* the command nibble of each kind of event
CmdOf(tag) == CASE tag = "Up" -> 8 [] tag = "Down" -> 9 [] tag = "KeyPressure" -> 10

\* C11: parse_midi of a 3-byte message returns an event exactly when the
\* high nibble of byte 0 is 0x8, 0x9 or 0xA; the event has the kind of that
\* nibble, the low nibble as channel, byte 1 as note or key, byte 2 as
\* velocity or pressure and the timestamp passed in; any other nibble gives
\* no event.
C11_ParseMidi ==
    made # <<>> =>
        LET byte0 == made.midi[1]
        IN  /\ got # <<>> <=> \E tag \in {"Up", "Down", "KeyPressure"} :
                                 \E ch \in 0..15 : byte0 = 16 * CmdOf(tag) + ch
            /\ got # <<>> =>
                 LET ev == got[1]
                 IN  /\ Len(got) = 1
                     /\ ev.timestamp = made.timestamp
                     /\ ev.channel \in 0..15
                     /\ byte0 = 16 * CmdOf(ev.inner.tag) + ev.channel
                     /\ IF ev.inner.tag = "KeyPressure"
                        THEN ev.inner.key = made.midi[2] /\ ev.inner.pressure = made.midi[3]
                        ELSE ev.inner.note = made.midi[2] /\ ev.inner.velocity = made.midi[3]

\* a note-on on channel 3 with note 69 and velocity 127 at timestamp 2
C11_Witness ==
    /\ made = [timestamp |-> 2, midi |-> <<147, 69, 127>>]
    /\ got = <<[timestamp |-> 2, channel |-> 3,
                inner |-> [tag |-> "Down", velocity |-> 127, note |-> 69]]>>

\* a control change gives no event
C11_WitnessNone ==
    /\ made # <<>>
    /\ made.midi[1] = 176
    /\ got = <<>>

----------------------------------------------------------------------------
(* SpecNote: midi_note_to_freq applied to a note byte and to the byte one  *)
(* semitone or one octave above it.  made is the two bytes, got the two    *)
(* frequencies returned.                                                   *)

NoteBytes == 0..255

InitNote ==
    /\ ProgIdle
    /\ filt = NoopFilter
    /\ made = <<>>
    /\ fed = <<>>
    /\ got = <<>>
    /\ disk = <<>>
    /\ fault = "none"

\* two calls of midi_note_to_freq
NoteToFreq ==
    /\ made = <<>>
    /\ \E note \in NoteBytes, step \in {1, 12} :
        /\ note + step \in NoteBytes
        /\ made' = [note |-> note, step |-> step]
        /\ got' = <<MidiNoteToFreq(note), MidiNoteToFreq(note + step)>>
    /\ UNCHANGED <<filt, fed, disk, fault, progVars>>

NextNote == NoteToFreq

SpecNote == InitNote /\ [][NextNote]_vars

\* a frequency in 1/FreqScale Hz (for frequencies below 20 kHz)
InHz(f) == FreqUnits(f.m, f.e, 20000 * FreqScale)

\* f <= g for frequencies whose mantissas lie within one octave of each other
FreqLeq(f, g) ==
    IF f.e = g.e THEN f.m <= g.m
    ELSE IF f.e < g.e THEN f.m < 2 * g.m
    ELSE 2 * f.m <= g.m

\* g is one equal-tempered semitone (2^(1/12) = 1.05946) above f, within
\* one part in 10000
SemitoneAbove(f, g) ==
    LET fm == f.m \div 440
        gm == IF g.e = f.e THEN g.m \div 440
              ELSE IF g.e = f.e + 1 THEN 2 * (g.m \div 440)
              ELSE 0
    IN  Abs(gm * 10000 - fm * 10595) <= fm

\* C12: midi_note_to_freq returns a frequency for every note byte; notes up
\* to 21 give 27.5 Hz; above 21 each semitone multiplies the frequency by
\* 2^(1/12) and each octave doubles it, which with note 21 at 27.5 Hz is
\* 27.5 * 2^((n-21)/12); note 69 is 440 Hz and note 22 is 29.14 Hz within
\* 1 Hz; the frequency never decreases with the note.
C12_MidiNoteToFreq ==
    made # <<>> =>
        LET n == made.note
            f == got[1]
            g == got[2]
        IN  /\ f.m > 0 /\ g.m > 0
            /\ n <= 21 => InHz(f) = 275000
            /\ n = 69 => Abs(InHz(f) - 440 * FreqScale) < FreqScale
            /\ n = 22 => Abs(InHz(f) - 291400) < FreqScale
            /\ FreqLeq(f, g)
            /\ (n >= 21 /\ made.step = 1) => SemitoneAbove(f, g)
            /\ (n >= 21 /\ made.step = 12) => g.m = f.m /\ g.e = f.e + 1
            /\ (n >= 21) => f.e = (n - 21) \div 12 - 4

\* note 69 and the octave above it: 440 Hz and 880 Hz
C12_Witness ==
    /\ made = [note |-> 69, step |-> 12]
    /\ InHz(got[1]) = 440 * FreqScale
    /\ InHz(got[2]) = 880 * FreqScale

\* note 0 is clamped to the pitch of note 21
C12_WitnessLow ==
    /\ made = [note |-> 0, step |-> 1]
    /\ InHz(got[1]) = 275000

----------------------------------------------------------------------------
(* SpecLowPass: a LowPass fed a constant stream.  made is the constant,    *)
(* fed and got the samples handed in and handed back so far.               *)

\* the gains asked of LowPass::new; 500 is what Default asks
NewGains == {0, 250, 499, LowPassDefaultGain, 700}

\* the constant inputs
ConstVals == SampleVals \cup {1, -1, 777, 1000}

InitLowPass ==
    /\ ProgIdle
    /\ \E gain \in NewGains :
          \/ filt = LowPassNew(gain)
          \/ gain <= LowPassDefaultGain /\ filt = [LowPassNew(gain) EXCEPT !.gain = gain]
    /\ \E v \in ConstVals : made = [v |-> v]
    /\ fed = <<>>
    /\ got = <<>>
    /\ disk = <<>>
    /\ fault = "none"

\* one call of process on a buffer of the constant
LowPassFeed ==
    /\ \E n \in 1..MaxBuf :
        /\ Len(fed) + n <= MaxFed
        /\ LET samples == [i \in 1..n |-> made.v]
               r       == Process(filt, samples)
           IN  /\ filt' = r.self
               /\ fed' = fed \o samples
               /\ got' = got \o r.samples
    /\ UNCHANGED <<made, disk, fault, progVars>>

NextLowPass == LowPassFeed

SpecLowPass == InitLowPass /\ [][NextLowPass]_vars

\* C13: a LowPass of gain g <= 0.5 fed the constant v hands back
\* g * (previous input + v), the previous input starting at 0: g * v first
\* and 2 * g * v from the second sample on (to the nearest sample unit), and
\* no output is larger in magnitude than 2 * g * |v|.
C13_LowPassConverges ==
    LET g == filt.gain
        v == made.v
    IN  /\ g <= LowPassDefaultGain
        /\ Len(got) = Len(fed)
        /\ \A k \in 1..Len(got) :
              /\ k = 1 => Abs(got[k] * GainScale - g * v) <= GainScale \div 2
              /\ k >= 2 => Abs(got[k] * GainScale - 2 * g * v) <= GainScale \div 2
              /\ Abs(got[k]) * GainScale <= 2 * g * Abs(v) + GainScale \div 2

\* the default filter (gain 0.499) fed 0.3: 0.150, then 0.299 for good
C13_Witness ==
    /\ filt.gain = LowPassMaxGain
    /\ made.v = 300
    /\ got = <<150, 299, 299>>

----------------------------------------------------------------------------
(* SpecFIR: an FIR designed from the constant response curve H(x) = 1,     *)
(* with a few taps or with the 25 of audio_thread, fed a stream.           *)

\* most taps tried, besides FirTaps
MaxTaps == 3

InitFIR ==
    /\ ProgIdle
    /\ \E taps \in (1..MaxTaps) \cup {FirTaps} : filt = FIRNew(taps, "unity")
    /\ made = <<>>
    /\ fed = <<>>
    /\ got = <<>>
    /\ disk = <<>>
    /\ fault = "none"

\* one call of process
FIRFeed ==
    /\ \E samples \in Buffers :
        /\ samples # <<>>
        /\ Len(fed) + Len(samples) <= MaxFed
        /\ LET r == Process(filt, samples)
           IN  /\ filt' = r.self
               /\ fed' = fed \o samples
               /\ got' = got \o r.samples
    /\ UNCHANGED <<made, disk, fault, progVars>>

NextFIR == FIRFeed

SpecFIR == InitFIR /\ [][NextFIR]_vars

\* C14 as stated: an FIR with T >= 1 taps and the response curve H(x) = 1
\* is the identity: process leaves every sample x, 0 included, equal to x.
C14_FIRIdentity == got = fed

----------------------------------------------------------------------------
(* SpecRing: a StringSynth plucked once, left to ring and retuned while it *)
(* rings.  made counts the plucks, the one-sample pulls and the retunes;   *)
(* got holds the samples produced since the pluck.                         *)

\* most one-sample pulls
MaxRingSingles == 4
\* most calls of tune after the pluck
MaxRetunes == 2
\* most samples pulled in all
MaxRung == 56

\* 44100 Hz, 22050 Hz, 14700 Hz, MIDI note 127, 440 Hz: lengths 1, 2, 3, 4, 100
RingFreqs ==
    {[m |-> 441000000, e |-> 0], [m |-> 220500000, e |-> 0],
     [m |-> 147000000, e |-> 0], MidiNoteToFreq(127), NoteFreq(0, 4)}

InitRing ==
    /\ ProgIdle
    /\ \E depth \in {1, MaxLen} : filt = StringSynthNew(depth)
    /\ made = [plucks |-> 0, singles |-> 0, retunes |-> 0]
    /\ fed = <<>>
    /\ got = <<>>
    /\ disk = <<>>
    /\ fault = "none"

\* synth.tune(freq); synth.trigger_count = 50
RingPluck ==
    /\ fault = "none"
    /\ made.plucks = 0
    /\ \E f \in RingFreqs :
        filt' = [StringSynthTune(filt, f) EXCEPT !.trigger_count = TriggerLen]
    /\ made' = [made EXCEPT !.plucks = 1]
    /\ got' = <<>>
    /\ UNCHANGED <<fed, disk, fault, progVars>>

\* synth.tune(freq) alone, once the countdown is over
RingTune ==
    /\ fault = "none"
    /\ made.plucks = 1
    /\ filt.trigger_count = 0
    /\ made.retunes < MaxRetunes
    /\ \E f \in RingFreqs \cup {MidiNoteToFreq(161)} :
        /\ filt' = StringSynthTune(filt, f)
        /\ fault' = IF StringSynthTunePanics(filt, f) THEN "panic" ELSE "none"
    /\ made' = [made EXCEPT !.retunes = made.retunes + 1]
    /\ UNCHANGED <<fed, got, disk, progVars>>

\* one call of process
RingPull ==
    /\ fault = "none"
    /\ \E n \in {1, BigPull} :
        /\ n = 1 => made.singles < MaxRingSingles
        /\ Len(filt.snoop.samples) + n <= MaxRung
        /\ LET r == Process(filt, [i \in 1..n |-> 0])
           IN  /\ filt' = r.self
               /\ got' = got \o r.samples
        /\ made' = [made EXCEPT !.singles = IF n = 1 THEN made.singles + 1 ELSE made.singles]
    /\ UNCHANGED <<fed, disk, fault, progVars>>

NextRing == RingPluck \/ RingTune \/ RingPull

SpecRing == InitRing /\ [][NextRing]_vars

\* the largest magnitude among the delay buffer's samples, the low-pass's
\* remembered input and the last output
Energy(s) ==
    LET mags == {Abs(s.delay.samples[i]) : i \in 1..Len(s.delay.samples)}
                    \cup {Abs(s.lpf.last), Abs(s.last)}
    IN  CHOOSE x \in mags : \A y \in mags : y <= x

\* C15: while the voice resonates (trigger_count = 0 before and after),
\* neither producing samples nor retuning increases the largest magnitude
\* among the delay buffer, the low-pass's remembered input and last.
C15_RingNeverGrows ==
    [][(filt.kind = "StringSynth" /\ filt.trigger_count = 0 /\ filt'.trigger_count = 0)
          => Energy(filt') <= Energy(filt)]_vars

\* the countdown is over, the string still rings, it has been retuned and
\* has produced samples since
C15_Witness ==
    /\ fault = "none"
    /\ made.plucks = 1
    /\ made.retunes >= 1
    /\ filt.trigger_count = 0
    /\ Len(got) > TriggerLen + 2
    /\ Energy(filt) > 0
    /\ filt.last # 0

----------------------------------------------------------------------------
(* SpecResize: a DelayLine in use, resized once by set_len with the length *)
(* the caller computed (StringSynth::tune passes 0 for a frequency above   *)
(* 88200 Hz), and used again.  made records the line as it was and the     *)
(* length asked for; fed and got the samples handed in and back.           *)

InitResize ==
    /\ ProgIdle
    /\ \E len \in 1..MaxLen : filt = DelayLineNew(len)
    /\ made = <<>>
    /\ fed = <<>>
    /\ got = <<>>
    /\ disk = <<>>
    /\ fault = "none"

\* one call of process
ResizeFeed ==
    /\ fault = "none"
    /\ \E buf \in Buffers :
        /\ buf # <<>>
        /\ Len(fed) + Len(buf) <= MaxFed
        /\ IF DelayLineProcessPanics(filt, buf)
           THEN /\ fault' = "panic"
                /\ UNCHANGED <<filt, fed, got>>
           ELSE LET r == Process(filt, buf)
                IN  /\ filt' = r.self
                    /\ fed' = fed \o buf
                    /\ got' = got \o r.samples
                    /\ UNCHANGED fault
    /\ UNCHANGED <<made, disk, progVars>>

\* the call of set_len
ResizeSetLen ==
    /\ fault = "none"
    /\ made = <<>>
    /\ \E new_len \in 0..(MaxLen + 1) :
        /\ made' = [old |-> filt, new_len |-> new_len, at |-> Len(fed)]
        /\ filt' = DelayLineSetLen(filt, new_len)
        /\ fault' = IF DelayLineSetLenPanics(filt, new_len) THEN "panic" ELSE "none"
    /\ UNCHANGED <<fed, got, disk, progVars>>

NextResize == ResizeFeed \/ ResizeSetLen

SpecResize == InitResize /\ [][NextResize]_vars

\* C16 as stated: set_len(new_length) with new_length >= 1 keeps the first
\* min(old, new) entries, zero-fills the added ones and leaves the cursor
\* in [0, new_length); and in every reachable state the cursor is inside
\* the buffer and no process call has indexed outside it.
C16_CursorInsideBuffer ==
    /\ (made # <<>> /\ made.new_len >= 1 /\ made.at = Len(fed)) =>
          /\ Len(filt.samples) = made.new_len
          /\ \A i \in 1..made.new_len :
                filt.samples[i] = IF i <= Len(made.old.samples)
                                  THEN made.old.samples[i] ELSE 0
          /\ filt.pos = made.old.pos % made.new_len
    /\ filt.pos < Len(filt.samples)
    /\ fault = "none"

----------------------------------------------------------------------------
(* The running program: what applying a control event leaves alone.        *)

\* a step of the program outside the callback
ControlStep == pc'.sdl = pc.sdl

\* C17: no step of the control path changes the voice except while a note
\* event (MIDI note-down or PlayNote) is being applied, and such a step
\* changes at most the delay line's length, its cursor (re-wrapped into the
\* new length) and trigger_count: the samples the delay line retains, the
\* zeros it is extended with, last, the low-pass, the noise generator, the
\* recording tap and the filters after the string are as they were.
C17_ControlKeepsEnergy ==
    [][ControlStep =>
          LET s  == synth.synth
              t  == synth'.synth
              n  == Len(s.delay.samples)
              nn == Len(t.delay.samples)
          IN  /\ synth' # synth =>
                    /\ pc.audio \in {"tune", "trigger"}
                    /\ IsNoteEvent(cur[1])
              /\ synth'.filter = synth.filter
              /\ t.last = s.last
              /\ t.lpf = s.lpf
              /\ t.rng = s.rng
              /\ t.snoop = s.snoop
              /\ \A i \in 1..nn :
                    t.delay.samples[i] = IF i <= n THEN s.delay.samples[i] ELSE 0
              /\ t.delay.pos = s.delay.pos \/ (nn > 0 /\ t.delay.pos = s.delay.pos % nn)
              /\ t.trigger_count \in {s.trigger_count, TriggerLen}]_vars

\* a second note event has just been applied to a string the first one
\* excited: the delay line still holds the noise and the generator has not
\* been reset
C17_Witness ==
    /\ Len(NoteEvents(handled)) = 2
    /\ pc.audio = "recv"
    /\ synth.synth.trigger_count = TriggerLen
    /\ synth.synth.rng # RngDefault
    /\ \E i \in 1..Len(synth.synth.delay.samples) : synth.synth.delay.samples[i] # 0

\* an Up or KeyPressure event has been taken off the queue and the voice is
\* as it was built
C17_WitnessUp ==
    /\ handled # <<>>
    /\ ~IsNoteEvent(handled[1])
    /\ handled[1].tag = "Midi"
    /\ synth.synth = StringSynthNew(StringDepth)

----------------------------------------------------------------------------
(* SpecChain again: the voice's filter is Chain(B, Chain(A, NoopFilter)),   *)
(* a Chain whose first child H is B and whose second child T is the chain  *)
(* of A.                                                                   *)

\* C18: Chain(H, T).process runs T on the buffer and then H on what T left:
\* the samples are H(T(x)), T is left as after the raw stream x and H as
\* after T's output.
C18_ChainTailThenHead ==
    LET x  == Process(made.synth, fed).samples
        rt == Process(Chain(made.a, NoopFilter), x)
        rh == Process(made.b, rt.samples)
    IN  /\ filt.filter.kind = "Chain"
        /\ got = rh.samples
        /\ filt.filter.f1 = rt.self
        /\ filt.filter.f0 = rh.self

\* H is a tap and T doubles: the tap recorded the doubled stream
C18_Witness ==
    /\ made = [synth |-> NoopFilter, a |-> Scale(2000), b |-> SnoopNew("tap.wav")]
    /\ fed = <<300, -1000>>
    /\ got = <<600, -2000>>
    /\ filt.filter.f0.samples = <<600, -2000>>

----------------------------------------------------------------------------
(* SpecStart: run from the point where the audio thread has been spawned   *)
(* and the MIDI input is about to be set up (src/main.rs 241-244), then    *)
(* the running program.  made is the command line and the MIDI system run  *)
(* finds: the device prefix asked for (<<>> when none is), the input ports *)
(* in enumeration order and the call that fails, if any.  got is what      *)
(* initialize_midi returned, fed the failures reported to the user.        *)
(* A port name is a sequence of characters.                                *)

\* the prefix on the command line
PortPrefix == <<"k", "b">>

\* the port lists tried
PortLists ==
    {<<>>,
     << <<"d", "r">> >>,
     << <<"k", "b", "1">> >>,
     << <<"d", "r">>, <<"k", "b", "1">> >>,
     << <<"k", "b", "1">>, <<"d", "r">>, <<"k", "b", "2">> >>}

\* the calls of initialize_midi that can fail: MidiInput::new, port_name,
\* connect
MidiFailures == {"none", "new", "port_name", "connect"}

\* name.starts_with(&n)
StartsWith(name, n) == Len(n) <= Len(name) /\ SubSeq(name, 1, Len(n)) = n

\* `for port in input.ports() { ... the_port = Some(port); }`: the loop has
\* no break, every matching port overwrites the_port
RECURSIVE ThePort(_, _, _, _)
ThePort(ports, n, i, the_port) ==
    IF i > Len(ports) THEN the_port
    ELSE ThePort(ports, n, i + 1,
                 IF StartsWith(ports[i], n) THEN <<i>> ELSE the_port)

\* initialize_midi(MidiDevice::Named(n), send_midi): [ret |-> "Ok", conn |->
\* <<index of the port connected>> or <<>>] or [ret |-> "Err"]
InitializeMidi(n, ports, failure) ==
    IF failure = "new" THEN [ret |-> "Err", conn |-> <<>>]
    ELSE IF failure = "port_name" /\ ports # <<>> THEN [ret |-> "Err", conn |-> <<>>]
    ELSE LET the_port == ThePort(ports, n, 1, <<>>)
         IN  IF the_port = <<>> THEN [ret |-> "Ok", conn |-> <<>>]
             ELSE IF failure = "connect" THEN [ret |-> "Err", conn |-> <<>>]
             ELSE [ret |-> "Ok", conn |-> the_port]

InitStart ==
    /\ synth = SynthBuilderBuild(
                   SynthBuilderChain(SynthBuilderNew(StringSynthNew(StringDepth)),
                                     FIRNew(FirTaps, "cut1000")))
    /\ audio_recv = <<>>
    /\ pc = [main |-> "midi_setup", audio |-> "recv", sdl |-> "idle", midi |-> "off"]
    /\ dev = [lock |-> "free", open |-> TRUE]
    /\ cur = <<>>
    /\ out = <<>>
    /\ sent = <<>>
    /\ handled = <<>>
    /\ clock = 0
    /\ pulls = 0
    /\ filt = NoopFilter
    /\ \E device \in {<<>>, <<PortPrefix>>}, ports \in PortLists, failure \in MidiFailures :
          made = [device |-> device, ports |-> ports, failure |-> failure]
    /\ fed = <<>>
    /\ got = <<>>
    /\ disk = <<>>
    /\ fault = "none"

\* `let _midi = args.midi_device.map(move |d| initialize_midi(d, send_audio))`:
\* the Result is bound and never looked at, and run goes on to its loop
MidiSetup ==
    /\ pc.main = "midi_setup"
    /\ IF made.device = <<>>
       THEN /\ got' = <<>>
            /\ pc' = [pc EXCEPT !.main = "loop"]
       ELSE LET r == InitializeMidi(made.device[1], made.ports, made.failure)
            IN  /\ got' = <<r>>
                /\ pc' = [pc EXCEPT !.main = "loop",
                                    !.midi = IF r.conn # <<>> THEN "on" ELSE "off"]
    /\ UNCHANGED <<synth, audio_recv, dev, cur, out, sent, handled, clock, pulls,
                   filt, made, fed, disk, fault>>

NextStart == MidiSetup \/ Next

SpecStart == InitStart /\ [][NextStart]_vars

\* the ports whose names start with the prefix asked for
Matching == {i \in 1..Len(made.ports) : StartsWith(made.ports[i], made.device[1])}

\* C19 as stated: with several ports matching the prefix, initialize_midi
\* connects to the first of them in enumeration order.
C19_FirstMatchingPort ==
    (got # <<>> /\ got[1].conn # <<>>) =>
        /\ got[1].conn[1] \in Matching
        /\ \A i \in Matching : got[1].conn[1] <= i

\* the named device was asked for and was not found or could not be opened
MidiUnavailable ==
    /\ got # <<>>
    /\ got[1].conn = <<>>

\* C20 as stated: when the named device cannot be found or opened, the
\* failure has been reported exactly once by the time run is in its event
\* loop, and the session goes on without MIDI: run is in (or past) its
\* event loop and no MIDI event is ever on the queue.
C20_ReportedOnceAndProceeds ==
    MidiUnavailable =>
        /\ Len(fed) = 1
        /\ pc.midi = "off"
        /\ pc.main \in {"loop", "done"}
        /\ \A i \in 1..Len(sent) : sent[i].tag # "Midi"

----------------------------------------------------------------------------
(* SpecLog: a recording tap on its own, fed numbered samples and saved,   *)
(* and the tap inside a StringSynth that is plucked and pulled and, as in  *)
(* the running program (the save calls of src/main.rs 265-266 are          *)
(* commented out), never saved.  fed holds every sample handed to process, *)
(* got every sample process left in the buffers, disk the saves as in      *)
(* SpecSnoop; made counts the plucks and the one-sample pulls.             *)

InitLog ==
    /\ ProgIdle
    /\ filt \in {SnoopNew("string.wav"), StringSynthNew(1), StringSynthNew(MaxLen)}
    /\ made = [plucks |-> 0, singles |-> 0]
    /\ fed = <<>>
    /\ got = <<>>
    /\ disk = <<>>
    /\ fault = "none"

\* one call of Snoop::process on the tap alone
LogTapProcess ==
    /\ filt.kind = "Snoop"
    /\ \E n \in 1..MaxBuf :
        /\ Len(fed) + n <= MaxFed
        /\ LET buf == [i \in 1..n |-> Len(fed) + i]
               r   == Process(filt, buf)
           IN  /\ filt' = r.self
               /\ fed' = fed \o buf
               /\ got' = got \o r.samples
    /\ UNCHANGED <<made, disk, fault, progVars>>

\* one call of Snoop::save on the tap alone
LogTapSave ==
    /\ filt.kind = "Snoop"
    /\ Len(disk) < MaxSaves
    /\ \E outcome \in SaveOutcomes :
        LET r == SnoopSave(filt, outcome)
        IN  /\ filt' = r.self
            /\ disk' = Append(disk, [at |-> Len(fed), ret |-> r.ret,
                                     opened |-> r.opened, file |-> r.file])
    /\ UNCHANGED <<made, fed, got, fault, progVars>>

\* synth.tune(freq); synth.trigger_count = 50
LogPluck ==
    /\ filt.kind = "StringSynth"
    /\ fault = "none"
    /\ made.plucks < MaxPlucks
    /\ \E f \in VoiceFreqs :
        IF StringSynthTunePanics(filt, f)
        THEN /\ filt' = StringSynthTune(filt, f)
             /\ fault' = "panic"
        ELSE /\ filt' = [StringSynthTune(filt, f) EXCEPT !.trigger_count = TriggerLen]
             /\ UNCHANGED fault
    /\ made' = [made EXCEPT !.plucks = made.plucks + 1]
    /\ UNCHANGED <<fed, got, disk, progVars>>

\* one call of StringSynth::process on a buffer of silence
LogPull ==
    /\ filt.kind = "StringSynth"
    /\ fault = "none"
    /\ \E n \in {1, BigPull} :
        /\ n = 1 => made.singles < MaxSingles
        /\ Len(fed) + n <= MaxPulled
        /\ LET buf == [i \in 1..n |-> 0]
               r   == Process(filt, buf)
           IN  /\ filt' = r.self
               /\ fed' = fed \o buf
               /\ got' = got \o r.samples
        /\ made' = [made EXCEPT !.singles = IF n = 1 THEN made.singles + 1 ELSE made.singles]
    /\ UNCHANGED <<disk, fault, progVars>>

NextLog == LogTapProcess \/ LogTapSave \/ LogPluck \/ LogPull

SpecLog == InitLog /\ [][NextLog]_vars

C21_WitnessTap ==
    /\ filt.kind = "Snoop"
    /\ Len(disk) >= 1
    /\ disk[1].opened /\ disk[1].at = 2
    /\ Len(fed) = 5
    /\ Len(filt.samples) = 3

----------------------------------------------------------------------------
(* Failed saves, under SpecSnoop.                                          *)

\* how many samples had been fed at the last save that returned Ok
RECURSIVE LastOkAt(_)
LastOkAt(n) ==
    IF n = 0 THEN 0 ELSE IF disk[n].ret = "Ok" THEN disk[n].at ELSE LastOkAt(n - 1)

\* the samples that reached a file in some save
Written == UNION {Range(disk[i].file) : i \in 1..Len(disk)}

\* C22 as stated: a save that fails, on opening the destination or on
\* writing to it, returns the error and leaves the log undrained: the log
\* holds every sample recorded since the last save that returned Ok, and
\* every sample recorded is in a file or still in the log.
C22_FailedSaveKeepsLog ==
    /\ \A i \in 1..Len(disk) : ~disk[i].opened => disk[i].ret = "Err"
    /\ filt.samples = SubSeq(fed, LastOkAt(Len(disk)) + 1, Len(fed))
    /\ Range(fed) \subseteq Range(filt.samples) \cup Written

----------------------------------------------------------------------------
(* The countdown, under SpecVoice.                                         *)

\* C23: trigger_count stays within 0..50: a trigger sets it to 50 whatever
\* it was, and a call of process on n samples takes it down by n, stopping
\* at 0.
C23_TriggerCountBounded ==
    /\ [](filt.trigger_count \in 0..TriggerLen)
    /\ [][(made'.plucks = made.plucks + 1 /\ fault' = "none")
             => filt'.trigger_count = TriggerLen]_vars
    /\ [][(made'.plucks = made.plucks /\ got' # got)
             => filt'.trigger_count =
                   IF filt.trigger_count > Len(got') - Len(got)
                   THEN filt.trigger_count - (Len(got') - Len(got)) ELSE 0]_vars

\* the second trigger came while the countdown of the first was running,
\* and the voice has since been pulled past the end of the countdown
C23_Witness ==
    /\ fault = "none"
    /\ made.plucks = 2
    /\ Len(filt.snoop.samples) - Len(got) \in 1..(TriggerLen - 1)
    /\ Len(got) > TriggerLen
    /\ filt.trigger_count = 0

====
